---- MODULE Spec2Model ----
(***************************************************************************)
(* State engine of the SuperLink server: the Postgres store                *)
(* (state/postgres.rs) and the Driver and Fleet handlers that call it.     *)
(* Tables are modelled row by row; every SQL statement is translated as    *)
(* the statement diesel builds, and a transaction of several statements    *)
(* is split at the point where another transaction can commit in between   *)
(* (Postgres default isolation READ COMMITTED: the code opens its          *)
(* transactions with conn.transaction and sets no isolation level).        *)
(***************************************************************************)
EXTENDS Integers, FiniteSets, Sequences, TLC

\* ---------------------------------------------------------------- bounds
MaxId == 2          \* new_id draws from (-MaxId) .. (MaxId - 1), without 0
MaxRuns == 1        \* rows in table run
MaxNodes == 2       \* rows in table node
MaxTime == 3        \* wall clock of the node specification
MaxPing == 2        \* ping intervals 1 .. MaxPing
MaxIns == 2         \* instructions pushed in one behaviour
MaxRes == 2         \* results pushed in one behaviour
MaxProc == 2        \* requests served at the same time
MaxTaskNode == 1    \* consumers: anonymous and the nodes -MaxTaskNode .. MaxTaskNode
MaxPbNode == 1      \* node_id of a pb::Node in a request: -MaxPbNode .. MaxPbNode
MaxRequests == 3    \* requests the services answer in one behaviour
MaxClock == 2       \* wall clock of the specification of pulls over time
MaxLimit == 2       \* Limit values 0 .. MaxLimit of task_results
MaxStrLen == 2      \* characters in an element of an ancestry list
MaxAncestry == 2    \* elements in an ancestry list
message_expires_after == 1  \* Config::message_expires_after, in seconds

\* FleetHandler::pull_task_instructions passes limit 1 to the store
PullLimit == 1

\* ------------------------------------------------------------- variables
VARIABLES
    run,        \* table run: set of ids
    node,       \* table node: id -> [online_until, ping_interval]
    task_ins,   \* table task_ins: set of rows
    task_res,   \* table task_res: set of rows
    now,        \* Utc::now()
    op,         \* the last completed call: name, arguments, response
    registered, \* per node row: time and interval of create_node, own pings
    nextIns,    \* number of Uuid::new_v4() values given to instructions
    nextRes,    \* number of Uuid::new_v4() values given to results
    pc,         \* per request task: the statement it is suspended before
    arg,        \* per request task: the request
    sel,        \* per request task: the Vec of rows (of task_res) or of
                \* ids (of task_ins, as records [id]) its transaction holds
    insPulls,   \* instruction id -> number of pulls that returned it
    resPulls,   \* result id -> number of pulls that returned it
    pushedRes,  \* result id -> the row push_task_result inserted, and
                \* whether its instruction had been pulled by then
    served      \* number of requests the services have answered

storeVars == <<run, node, task_ins, task_res>>
nodeVars == <<run, node, registered>>
taskVars == <<task_ins, task_res, nextIns, nextRes, pc, arg, sel,
              insPulls, resPulls, pushedRes, served>>
vars == <<run, node, task_ins, task_res, now, op, registered, nextIns,
          nextRes, pc, arg, sel, insPulls, resPulls, pushedRes, served>>

\* ------------------------------------------------------ model::handler::Node
Id(n) == [kind |-> "Id", id |-> n]
Anonymous == [kind |-> "Anonymous", id |-> 0]

\* impl From<&HandlerNode> for (i64, bool)
NodeToPair(n) == IF n.kind = "Id" THEN <<n.id, FALSE>> ELSE <<0, TRUE>>

new_id_unfiltered == (0 - MaxId)..(MaxId - 1)

\* handler::common::new_id: Uniform::new(i64::MIN, i64::MAX) filtered by x != 0
new_id == {x \in (0 - MaxId)..(MaxId - 1) : x # 0}

HandlerNodes == {Id(n) : n \in new_id} \cup {Anonymous}
PingIntervals == 1..MaxPing

Procs == 1..MaxProc
InsIds == 1..MaxIns             \* Uuid values of instructions
ResIds == 1..MaxRes             \* Uuid values of results
\* recordsets are opaque bytes: every instruction carries InsBytes and the
\* k-th pushed result carries a payload of its own, ResBytes(k)
InsBytes == << >>
ResBytes(k) == <<k>>
NoArg == [kind |-> "none", node |-> Anonymous, ids |-> {}]
NodeArg(n) == [kind |-> "node", node |-> n, ids |-> {}]
IdsArg(ids) == [kind |-> "ids", node |-> Anonymous, ids |-> ids]

\* delivered_at is a string: "" or Utc::now().to_rfc3339()
EmptyStr == << >>
to_rfc3339(t) == <<t>>

\* ---------------------------------------------------------------- Store: node, run
\* Postgres::insert_run: INSERT INTO run (id) VALUES ($1); primary key run.id
insert_run_ok(run_id) == run_id \notin run
insert_run(run_id) == run \cup {run_id}

\* Postgres::insert_node: INSERT INTO node VALUES (...); primary key node.id
insert_node_ok(new_node) == new_node.id \notin DOMAIN node
insert_node(new_node) ==
    [i \in (DOMAIN node) \cup {new_node.id} |->
        IF i = new_node.id
        THEN [online_until |-> new_node.online_until,
              ping_interval |-> new_node.ping_interval]
        ELSE node[i]]

\* Postgres::delete_node: DELETE FROM node WHERE id = $1
delete_node(node_id) == [i \in (DOMAIN node) \ {node_id} |-> node[i]]

nodes_strict(run_id, timestamp) ==
    IF Cardinality({r \in run : r = run_id}) = 0
    THEN {}
    ELSE {i \in DOMAIN node : node[i].online_until > timestamp}

\* Postgres::nodes: count of run rows with the id, then
\* SELECT id FROM node WHERE online_until >= $timestamp
nodes(run_id, timestamp) ==
    IF Cardinality({r \in run : r = run_id}) = 0
    THEN {}
    ELSE {i \in DOMAIN node : node[i].online_until >= timestamp}

\* Postgres::update_ping: diesel::update(node).set(ping) has no filter, and
\* AsChangeset leaves out the primary key:
\* UPDATE node SET online_until = $1, ping_interval = $2
update_ping_rows(ping) == DOMAIN node
update_ping_table(ping) ==
    [i \in DOMAIN node |->
        IF i \in update_ping_rows(ping)
        THEN [online_until |-> ping.online_until,
              ping_interval |-> ping.ping_interval]
        ELSE node[i]]
\* match res { 0 => Ok(false), _ => Ok(true) }
update_ping_result(ping) == Cardinality(update_ping_rows(ping)) # 0

\* ---------------------------------------------------------------- handlers: node, run
TasksUnchanged == UNCHANGED taskVars

\* DriverHandler::create_run: let run_id = new_id(); insert_run(run_id)?;
\* the error of insert_run is returned to the caller
create_run ==
    /\ \E run_id \in new_id :
        IF insert_run_ok(run_id)
        THEN /\ Cardinality(run) < MaxRuns
             /\ run' = insert_run(run_id)
             /\ op' = [name |-> "create_run", id |-> run_id, ok |-> TRUE]
        ELSE /\ run' = run
             /\ op' = [name |-> "create_run", id |-> run_id, ok |-> FALSE]
    /\ UNCHANGED <<node, now, registered>>
    /\ TasksUnchanged

\* FleetHandler::create_node: id: new_id(); insert_node(&node)?;
\* the error of insert_node is returned to the caller
create_node ==
    /\ \E id \in new_id, ping_interval \in PingIntervals :
        LET n == [id |-> id, online_until |-> now + ping_interval,
                  ping_interval |-> ping_interval]
        IN IF insert_node_ok(n)
           THEN /\ Cardinality(DOMAIN node) < MaxNodes
                /\ node' = insert_node(n)
                /\ registered' =
                     [i \in (DOMAIN node) \cup {id} |->
                        IF i = id
                        THEN [at |-> now, interval |-> ping_interval,
                              pinged |-> FALSE]
                        ELSE registered[i]]
                /\ op' = [name |-> "create_node", id |-> id, ok |-> TRUE]
           ELSE /\ UNCHANGED <<node, registered>>
                /\ op' = [name |-> "create_node", id |-> id, ok |-> FALSE]
    /\ UNCHANGED <<run, now>>
    /\ TasksUnchanged

\* FleetHandler::delete_node
FleetHandler_delete_node ==
    /\ \E n \in HandlerNodes :
        /\ IF n.kind = "Id"
           THEN /\ node' = delete_node(n.id)
                /\ registered' = [i \in DOMAIN node' |-> registered[i]]
           ELSE UNCHANGED <<node, registered>>
        /\ op' = [name |-> "delete_node", kind |-> n.kind, id |-> n.id,
                  ok |-> TRUE]
    /\ UNCHANGED <<run, now>>
    /\ TasksUnchanged

\* FleetHandler::acknowledge_ping
acknowledge_ping ==
    /\ \E n \in HandlerNodes, ping_interval \in PingIntervals :
        LET node_id == NodeToPair(n)[1]
            ping == [id |-> node_id, online_until |-> now + ping_interval,
                     ping_interval |-> ping_interval]
        IN /\ node' = update_ping_table(ping)
           /\ registered' =
                [i \in DOMAIN node |->
                    IF i = node_id
                    THEN [registered[i] EXCEPT !.pinged = TRUE]
                    ELSE registered[i]]
           /\ op' = [name |-> "update_ping", id |-> node_id, ping |-> ping,
                     ok |-> update_ping_result(ping)]
    /\ UNCHANGED <<run, now>>
    /\ TasksUnchanged

\* DriverHandler::nodes
DriverHandler_nodes ==
    /\ \E run_id \in new_id :
        op' = [name |-> "nodes", id |-> run_id, ok |-> TRUE,
               at |-> now, result |-> nodes(run_id, now)]
    /\ UNCHANGED <<run, node, now, registered>>
    /\ TasksUnchanged

\* the wall clock advances
Tick(bound) ==
    /\ now < bound
    /\ now' = now + 1
    /\ op' = [name |-> "tick", id |-> 0, ok |-> TRUE]
    /\ UNCHANGED <<run, node, registered>>
    /\ TasksUnchanged

\* ---------------------------------------------------------------- Store: tasks
\* a row of task_ins or task_res (state::models::TaskInstruction, TaskResult);
\* pushed_at is the clock of the handler that builds the row
Row(id, consumer, ancestry, recordset) ==
    [id |-> id,
     consumer_node_id |-> NodeToPair(consumer)[1],
     consumer_anonymous |-> NodeToPair(consumer)[2],
     delivered_at |-> EmptyStr,
     pushed_at |-> now,
     ancestry |-> ancestry,
     recordset |-> recordset]

Ids(rows) == {r.id : r \in rows}

\* the elements of a Vec or slice
Range(q) == {q[k] : k \in 1..Len(q)}

\* the id string of an instruction as it appears in an ancestry column:
\* a one-element list joined with ", "
AncestryOf(id) == <<id>>

\* every ordering of a set of rows (a SELECT without ORDER BY)
Orders(S) ==
    {f \in [1..Cardinality(S) -> S] :
        \A i, j \in 1..Cardinality(S) : i # j => f[i] # f[j]}

Min(a, b) == IF a < b THEN a ELSE b

insert_task_instructions_unchecked(instructions) == TRUE

\* Postgres::insert_task_instructions(&[TaskInstruction]): nothing for an
\* empty slice, else one INSERT of all rows; the statement fails on the
\* primary key id, whether two of its rows or a row and a stored row collide
insert_task_instructions_ok(instructions) ==
    /\ \A j, k \in 1..Len(instructions) :
            j # k => instructions[j].id # instructions[k].id
    /\ Ids(Range(instructions)) \cap Ids(task_ins) = {}
insert_task_instructions(instructions) == task_ins \cup Range(instructions)

insert_task_result_unchecked(row) == TRUE

\* Postgres::insert_task_result: one INSERT, primary key id
insert_task_result_ok(row) == row.id \notin Ids(task_res)
insert_task_result(row) == task_res \cup {row}

ConsumerClauseAnonymousAll(n, r) ==
    IF n.kind = "Id"
    THEN r.consumer_anonymous = FALSE /\ r.consumer_node_id = n.id
    ELSE TRUE

\* Postgres::task_instructions, the filter on the consumer
ConsumerClause(n, r) ==
    IF n.kind = "Id"
    THEN r.consumer_anonymous = FALSE /\ r.consumer_node_id = n.id
    ELSE r.consumer_anonymous = TRUE /\ r.consumer_node_id = 0

\* Postgres::task_instructions, first statement: the rows the SELECT can see
task_instructions_match(n) ==
    {r \in task_ins : ConsumerClause(n, r) /\ r.delivered_at = EmptyStr}

\* Postgres::task_instructions, the UPDATE ... WHERE id = $1 of one id
task_instructions_update(ids, delivered_at) ==
    {IF r.id \in ids THEN [r EXCEPT !.delivered_at = delivered_at] ELSE r :
        r \in task_ins}

\* Postgres::task_results, first statement
task_results_match(ids) ==
    {r \in task_res :
        /\ \E i \in ids : r.ancestry = AncestryOf(i)
        /\ r.delivered_at = EmptyStr}

\* Postgres::task_results, diesel::update(task_res::table).set(task_result):
\* no filter, AsChangeset leaves out the primary key, so every row of the
\* table takes the columns of task_result
task_results_set(r, task_result) == [task_result EXCEPT !.id = r.id]
task_results_update(task_result) ==
    {task_results_set(r, task_result) : r \in task_res}

delete_tasks_inner_all(res, ids) ==
    {r.ancestry : r \in {x \in res : x.delivered_at # EmptyStr}}

\* Postgres::delete_tasks on given table contents: the inner query
\* SELECT ancestry FROM task_res WHERE ancestry IN ids AND delivered_at <> ''
delete_tasks_inner_of(res, ids) ==
    {r.ancestry : r \in {x \in res :
        /\ \E i \in ids : x.ancestry = AncestryOf(i)
        /\ x.delivered_at # EmptyStr}}

delete_tasks_ins_not_in(ins, res, ids) ==
    {r \in ins :
        ~(r.delivered_at # EmptyStr
            /\ r.id \in ids
            /\ AncestryOf(r.id) \notin delete_tasks_inner_of(res, ids))}

\* DELETE FROM task_ins WHERE delivered_at <> '' AND id IN (inner query):
\* the rows that stay
delete_tasks_ins_of(ins, res, ids) ==
    {r \in ins :
        ~(r.delivered_at # EmptyStr
            /\ AncestryOf(r.id) \in delete_tasks_inner_of(res, ids))}

delete_tasks_res_any(res, ids) ==
    {r \in res : ~(\E i \in ids : r.ancestry = AncestryOf(i))}

\* DELETE FROM task_res WHERE ancestry IN ids AND delivered_at <> '':
\* the rows that stay
delete_tasks_res_of(res, ids) ==
    {r \in res :
        ~((\E i \in ids : r.ancestry = AncestryOf(i))
            /\ r.delivered_at # EmptyStr)}

delete_tasks_every_id(ins, res, ids) ==
    [ins |-> delete_tasks_ins_of(ins, res, InsIds),
     res |-> delete_tasks_res_of(res, InsIds)]

\* Postgres::delete_tasks run alone: nothing for empty ids, else the two
\* DELETE statements one after the other
delete_tasks(ins, res, ids) ==
    IF ids = {}
    THEN [ins |-> ins, res |-> res]
    ELSE [ins |-> delete_tasks_ins_of(ins, res, ids),
          res |-> delete_tasks_res_of(res, ids)]

\* the statements of delete_tasks on the current tables
delete_tasks_inner(ids) == delete_tasks_inner_of(task_res, ids)
delete_tasks_ins(ids) == delete_tasks_ins_of(task_ins, task_res, ids)
delete_tasks_res(ids) == delete_tasks_res_of(task_res, ids)

\* ---------------------------------------------------------------- handlers: tasks
TaskNodes == {n \in HandlerNodes : n.id \in (0 - MaxTaskNode)..MaxTaskNode}
NodesUnchanged == UNCHANGED <<run, node, registered, now, op, served>>
Idle(p) == /\ pc' = [pc EXCEPT ![p] = "idle"]
           /\ arg' = [arg EXCEPT ![p] = NoArg]
           /\ sel' = [sel EXCEPT ![p] = << >>]

\* DriverHandler::push_task_instructions of one instruction
\* (new_task_instruction: id = Uuid::new_v4(), delivered_at and ancestry as
\* validated on ingress, that is empty)
push_task_instructions ==
    /\ nextIns < MaxIns
    /\ \E consumer \in TaskNodes :
        LET id == nextIns + 1
            rows == <<Row(id, consumer, EmptyStr, InsBytes)>>
        IN /\ insert_task_instructions_ok(rows)
           /\ task_ins' = insert_task_instructions(rows)
           /\ nextIns' = id
    /\ NodesUnchanged
    /\ UNCHANGED <<task_res, nextRes, pc, arg, sel, insPulls, resPulls,
                   pushedRes>>

\* FleetHandler::push_task_result (new_task_result: id = Uuid::new_v4())
push_task_result ==
    /\ nextRes < MaxRes
    /\ \E t \in InsIds :
        LET id == nextRes + 1
            row == Row(id, Anonymous, AncestryOf(t), ResBytes(id))
        IN /\ insert_task_result_ok(row)
           /\ task_res' = insert_task_result(row)
           /\ nextRes' = id
           /\ pushedRes' = [i \in (DOMAIN pushedRes) \cup {id} |->
                               IF i = id
                               THEN [row |-> row, pulled |-> insPulls[t] >= 1]
                               ELSE pushedRes[i]]
    /\ NodesUnchanged
    /\ UNCHANGED <<task_ins, nextIns, pc, arg, sel, insPulls, resPulls>>

\* FleetHandler::pull_task_instructions of node n, Postgres::task_instructions
\* up to the SELECT: an empty selection ends the call
pull_task_instructions_select_node(p, n) ==
    /\ pc[p] = "idle"
    /\ LET match == task_instructions_match(n)
       IN \E S \in SUBSET match :
            /\ Cardinality(S) = Min(PullLimit, Cardinality(match))
            /\ IF S = {}
               THEN /\ UNCHANGED <<pc, arg, sel>>
               ELSE /\ pc' = [pc EXCEPT ![p] = "ti_selected"]
                    /\ arg' = [arg EXCEPT ![p] = NodeArg(n)]
                    /\ \E task_ids \in Orders({[id |-> r.id] : r \in S}) :
                            sel' = [sel EXCEPT ![p] = task_ids]
    /\ NodesUnchanged
    /\ UNCHANGED <<task_ins, task_res, nextIns, nextRes, insPulls, resPulls,
                   pushedRes>>

pull_task_instructions_select(p) ==
    \E n \in TaskNodes : pull_task_instructions_select_node(p, n)

\* Postgres::task_instructions, the UPDATE of every selected id and the
\* commit; get_result fails with NotFound when the row is gone, and the
\* transaction rolls back
pull_task_instructions_update(p) ==
    /\ pc[p] = "ti_selected"
    /\ IF Ids(Range(sel[p])) \subseteq Ids(task_ins)
       THEN /\ task_ins' = task_instructions_update(Ids(Range(sel[p])),
                                                     to_rfc3339(now))
            /\ insPulls' = [i \in InsIds |->
                              IF i \in Ids(Range(sel[p])) THEN insPulls[i] + 1
                              ELSE insPulls[i]]
       ELSE /\ UNCHANGED <<task_ins, insPulls>>
    /\ Idle(p)
    /\ NodesUnchanged
    /\ UNCHANGED <<task_res, nextIns, nextRes, resPulls, pushedRes>>

\* DriverHandler::pull_task_results, Postgres::task_results up to the SELECT.
\* Empty ids return at once from task_results and from delete_tasks; an
\* empty selection ends the first transaction.
pull_task_results_select(p) ==
    /\ pc[p] = "idle"
    /\ \E ids \in SUBSET InsIds :
        IF ids = {}
        THEN /\ UNCHANGED <<pc, arg, sel>>
        ELSE /\ arg' = [arg EXCEPT ![p] = IdsArg(ids)]
             /\ IF task_results_match(ids) = {}
                THEN /\ pc' = [pc EXCEPT ![p] = "tr_committed"]
                     /\ sel' = [sel EXCEPT ![p] = << >>]
                ELSE /\ pc' = [pc EXCEPT ![p] = "tr_selected"]
                     /\ \E L \in Orders(task_results_match(ids)) :
                            sel' = [sel EXCEPT ![p] = L]
    /\ NodesUnchanged
    /\ UNCHANGED <<task_ins, task_res, nextIns, nextRes, insPulls, resPulls,
                   pushedRes>>

\* Postgres::task_results, the loop of UPDATE ... RETURNING and the commit.
\* Each statement returns every row of the table and get_result keeps the
\* first one, which the database is free to choose; on an empty table
\* get_result fails with NotFound and the handler returns the error.
pull_task_results_update(p) ==
    /\ pc[p] = "tr_selected"
    /\ LET L == sel[p]
           stamped == [i \in 1..Len(L) |->
                         [L[i] EXCEPT !.delivered_at = to_rfc3339(now)]]
       IN IF task_res = {}
          THEN /\ UNCHANGED <<task_res, resPulls>>
               /\ Idle(p)
          ELSE \E first \in [1..Len(L) -> task_res] :
               LET updated == [i \in 1..Len(L) |->
                                 task_results_set(first[i], stamped[i])]
               IN /\ task_res' = task_results_update(stamped[Len(L)])
                  /\ resPulls' = [i \in ResIds |->
                        IF \E k \in 1..Len(L) : updated[k].id = i
                        THEN resPulls[i] + 1 ELSE resPulls[i]]
                  /\ pc' = [pc EXCEPT ![p] = "tr_committed"]
                  /\ sel' = [sel EXCEPT ![p] = updated]
                  /\ UNCHANGED arg
    /\ NodesUnchanged
    /\ UNCHANGED <<task_ins, nextIns, nextRes, insPulls, pushedRes>>

\* Postgres::delete_tasks, DELETE FROM task_ins
delete_tasks_instructions(p) ==
    /\ pc[p] = "tr_committed"
    /\ task_ins' = delete_tasks_ins(arg[p].ids)
    /\ pc' = [pc EXCEPT ![p] = "dt_ins_deleted"]
    /\ NodesUnchanged
    /\ UNCHANGED <<task_res, nextIns, nextRes, arg, sel, insPulls, resPulls,
                   pushedRes>>

\* Postgres::delete_tasks, DELETE FROM task_res and commit; the handler
\* returns the results of task_results
delete_tasks_results(p) ==
    /\ pc[p] = "dt_ins_deleted"
    /\ task_res' = delete_tasks_res(arg[p].ids)
    /\ Idle(p)
    /\ NodesUnchanged
    /\ UNCHANGED <<task_ins, nextIns, nextRes, insPulls, resPulls, pushedRes>>


\* DriverHandler::pull_task_results, the server process dies between
\* `task_results(..).await?` and `delete_tasks(..).await?`: the first
\* transaction is committed, the response is lost with the request, and
\* delete_tasks never runs. pc, arg and sel keep what the request held.
crash(p) ==
    /\ pc[p] = "tr_committed"
    /\ pc' = [pc EXCEPT ![p] = "crashed"]
    /\ NodesUnchanged
    /\ UNCHANGED <<task_ins, task_res, nextIns, nextRes, arg, sel, insPulls,
                   resPulls, pushedRes>>

\* DriverHandler::pull_task_results, `self.state.delete_tasks(..).await?`
\* returns Err (the pool gives no connection, or the first statement fails
\* and the transaction rolls back): the tables stay as task_results left
\* them, and `?` returns the error in place of the results the request
\* holds in sel.
delete_tasks_error(p) ==
    /\ pc[p] = "tr_committed"
    /\ Idle(p)
    /\ op' = [name |-> "pull_task_results", id |-> 0, ok |-> FALSE]
    /\ UNCHANGED <<run, node, registered, now, served>>
    /\ UNCHANGED <<task_ins, task_res, nextIns, nextRes, insPulls, resPulls,
                   pushedRes>>

\* ---------------------------------------------------------------- handlers: ids drawn at random
\* the requests of push_task_instructions: the service rejects an empty
\* list, a non-empty ancestry and a non-empty delivered_at; an instruction
\* is given by its consumer
PushRequests ==
    UNION {[1..n -> TaskNodes] : n \in 1..MaxIns}

\* DriverHandler::push_task_instructions with Uuid::new_v4() as a value the
\* handler does not choose: one id per instruction in input order, then
\* insert_task_instructions(&model)?; Ok(task_ids). op keeps the request, the
\* ids drawn and whether the call returned Ok.
DriverHandler_push_task_instructions ==
    /\ \E request \in PushRequests :
        \E task_ids \in [1..Len(request) -> InsIds] :
            LET model == [k \in 1..Len(request) |->
                            Row(task_ids[k], request[k], EmptyStr, InsBytes)]
            IN /\ IF insert_task_instructions_ok(model)
                  THEN task_ins' = insert_task_instructions(model)
                  ELSE task_ins' = task_ins
               /\ op' = [name |-> "push_task_instructions",
                         request |-> request, ids |-> task_ids,
                         ok |-> insert_task_instructions_ok(model)]
    /\ UNCHANGED <<run, node, registered, now, served>>
    /\ UNCHANGED <<task_res, nextIns, nextRes, pc, arg, sel, insPulls,
                   resPulls, pushedRes>>

\* FleetHandler::push_task_result with Uuid::new_v4() as a value the handler
\* does not choose: insert_task_result(&insert_task_res)?
FleetHandler_push_task_result ==
    /\ \E id \in ResIds, t \in InsIds :
        LET row == Row(id, Anonymous, AncestryOf(t), ResBytes(id))
        IN /\ IF insert_task_result_ok(row)
              THEN task_res' = insert_task_result(row)
              ELSE task_res' = task_res
           /\ op' = [name |-> "push_task_result", id |-> id,
                     ok |-> insert_task_result_ok(row)]
    /\ UNCHANGED <<run, node, registered, now, served>>
    /\ UNCHANGED <<task_ins, nextIns, nextRes, pc, arg, sel, insPulls,
                   resPulls, pushedRes>>

\* ids in use: a row of either table, or an id a running request holds
InsIdsInUse ==
    Ids(task_ins)
        \cup {i \in InsIds : \E r \in task_res : r.ancestry = AncestryOf(i)}
        \cup {i \in InsIds : \E p \in Procs :
                \/ i \in arg[p].ids
                \/ (pc[p] = "ti_selected" /\ i \in Ids(Range(sel[p])))}
ResIdsInUse ==
    Ids(task_res)
        \cup {u \in ResIds : \E p \in Procs :
                /\ pc[p] \in {"tr_selected", "tr_committed", "dt_ins_deleted"}
                /\ \E k \in 1..Len(sel[p]) : sel[p][k].id = u}

\* DriverHandler::push_task_instructions in a server that never stops:
\* Uuid::new_v4() is an id that no row and no request carries; the id of a
\* purged instruction stands for a new Uuid
push_task_instructions_unbounded ==
    /\ \E id \in InsIds \ InsIdsInUse : \E consumer \in TaskNodes :
        LET rows == <<Row(id, consumer, EmptyStr, InsBytes)>>
        IN /\ insert_task_instructions_ok(rows)
           /\ task_ins' = insert_task_instructions(rows)
           /\ insPulls' = [insPulls EXCEPT ![id] = 0]
    /\ NodesUnchanged
    /\ UNCHANGED <<task_res, nextIns, nextRes, pc, arg, sel, resPulls,
                   pushedRes>>

\* FleetHandler::push_task_result in a server that never stops: the node
\* answers an instruction it has pulled
push_task_result_unbounded ==
    /\ \E id \in ResIds \ ResIdsInUse : \E t \in Ids(task_ins) :
        LET row == Row(id, Anonymous, AncestryOf(t), ResBytes(id))
        IN /\ insPulls[t] >= 1
           /\ insert_task_result_ok(row)
           /\ task_res' = insert_task_result(row)
           /\ resPulls' = [resPulls EXCEPT ![id] = 0]
           /\ pushedRes' = [i \in (DOMAIN pushedRes) \cup {id} |->
                               IF i = id
                               THEN [row |-> row, pulled |-> TRUE]
                               ELSE pushedRes[i]]
    /\ NodesUnchanged
    /\ UNCHANGED <<task_ins, nextIns, nextRes, pc, arg, sel, insPulls>>

Init ==
    /\ run = {}
    /\ node = << >>
    /\ task_ins = {}
    /\ task_res = {}
    /\ now = 1
    /\ op = [name |-> "init", id |-> 0, ok |-> TRUE]
    /\ registered = << >>
    /\ nextIns = 0
    /\ nextRes = 0
    /\ pc = [p \in Procs |-> "idle"]
    /\ arg = [p \in Procs |-> NoArg]
    /\ sel = [p \in Procs |-> << >>]
    /\ insPulls = [i \in InsIds |-> 0]
    /\ resPulls = [i \in ResIds |-> 0]
    /\ pushedRes = << >>
    /\ served = 0

NodeNext ==
    \/ create_run
    \/ create_node
    \/ FleetHandler_delete_node
    \/ acknowledge_ping
    \/ DriverHandler_nodes
    \/ Tick(MaxTime)

NodeSpec == Init /\ [][NodeNext]_vars

Next ==
    \/ push_task_instructions
    \/ push_task_result
    \/ \E p \in Procs : pull_task_instructions_select(p)
    \/ \E p \in Procs : pull_task_instructions_update(p)
    \/ \E p \in Procs : pull_task_results_select(p)
    \/ \E p \in Procs : pull_task_results_update(p)
    \/ \E p \in Procs : delete_tasks_instructions(p)
    \/ \E p \in Procs : delete_tasks_results(p)

Spec == Init /\ [][Next]_vars

\* the consumer whose pulls the liveness specification follows: it runs the
\* client loop of a node (pull, wait for the response, pull again) as
\* request 1; the Driver's pull_task_results calls are request 2
LiveConsumer == Id(1)

LiveNext ==
    \/ push_task_instructions_unbounded
    \/ push_task_result_unbounded
    \/ pull_task_instructions_select_node(1, LiveConsumer)
    \/ pull_task_instructions_update(1)
    \/ pull_task_results_select(2)
    \/ pull_task_results_update(2)
    \/ delete_tasks_instructions(2)
    \/ delete_tasks_results(2)

\* the consumer keeps calling pull_task_instructions, and the runtime keeps
\* polling every request it has started until the request returns
LiveFairness ==
    /\ WF_vars(pull_task_instructions_select_node(1, LiveConsumer))
    /\ WF_vars(pull_task_instructions_update(1))
    /\ WF_vars(pull_task_results_update(2))
    /\ WF_vars(delete_tasks_instructions(2))
    /\ WF_vars(delete_tasks_results(2))

LiveSpec == Init /\ [][LiveNext]_vars /\ LiveFairness

\* a server whose process dies once between the two transactions of a
\* pull_task_results (request 1); the requests served after the restart are
\* request 2
CrashNext ==
    \/ push_task_instructions
    \/ push_task_result
    \/ pull_task_instructions_select(1)
    \/ pull_task_instructions_update(1)
    \/ pull_task_results_select(1)
    \/ pull_task_results_update(1)
    \/ delete_tasks_instructions(1)
    \/ delete_tasks_results(1)
    \/ crash(1)
    \/ (pc[1] = "crashed" /\ pull_task_results_select(2))
    \/ pull_task_results_update(2)
    \/ delete_tasks_instructions(2)
    \/ delete_tasks_results(2)

CrashSpec == Init /\ [][CrashNext]_vars

\* the calls that insert rows, with every id the generators can return
InsertNext ==
    \/ create_run
    \/ create_node
    \/ DriverHandler_push_task_instructions
    \/ FleetHandler_push_task_result

InsertSpec == Init /\ [][InsertNext]_vars

\* pushes, concurrent pull_task_instructions requests and one
\* pull_task_results request at a time, while the wall clock advances
TimedNext ==
    \/ push_task_instructions
    \/ push_task_result
    \/ \E p \in Procs : pull_task_instructions_select(p)
    \/ \E p \in Procs : pull_task_instructions_update(p)
    \/ pull_task_results_select(1)
    \/ pull_task_results_update(1)
    \/ delete_tasks_instructions(1)
    \/ delete_tasks_results(1)
    \/ Tick(MaxClock)

TimedSpec == Init /\ [][TimedNext]_vars

\* ---------------------------------------------------------------- Store calls
\* The operations of the Store trait called directly, one call at a time:
\* the transaction of a call commits before the next call starts. op keeps
\* the arguments and the value returned.
InstructionSlices ==
    UNION {[1..n -> {Row(i, c, EmptyStr, InsBytes) :
                        i \in InsIds, c \in TaskNodes}] : n \in 0..MaxIns}

\* Postgres::insert_task_instructions
Store_insert_task_instructions ==
    /\ \E instructions \in InstructionSlices :
        /\ IF insert_task_instructions_ok(instructions)
           THEN task_ins' = insert_task_instructions(instructions)
           ELSE task_ins' = task_ins
        /\ op' = [name |-> "insert_task_instructions",
                  instructions |-> instructions,
                  ok |-> insert_task_instructions_ok(instructions)]
    /\ UNCHANGED <<run, node, registered, now, served>>
    /\ UNCHANGED <<task_res, nextIns, nextRes, pc, arg, sel, insPulls,
                   resPulls, pushedRes>>

\* Postgres::insert_task_result
Store_insert_task_result ==
    /\ \E id \in ResIds, t \in InsIds :
        LET row == Row(id, Anonymous, AncestryOf(t), ResBytes(id))
        IN /\ IF insert_task_result_ok(row)
              THEN task_res' = insert_task_result(row)
              ELSE task_res' = task_res
           /\ op' = [name |-> "insert_task_result", row |-> row,
                     ok |-> insert_task_result_ok(row)]
    /\ UNCHANGED <<run, node, registered, now, served>>
    /\ UNCHANGED <<task_ins, nextIns, nextRes, pc, arg, sel, insPulls,
                   resPulls, pushedRes>>

\* Postgres::task_instructions(node, limit): SELECT id ... LIMIT $limit,
\* then UPDATE ... WHERE id = $1 RETURNING for every id selected
Store_task_instructions ==
    /\ \E n \in TaskNodes :
        \E S \in SUBSET task_instructions_match(n) :
            /\ Cardinality(S) =
                 Min(PullLimit, Cardinality(task_instructions_match(n)))
            /\ task_ins' = task_instructions_update(Ids(S), to_rfc3339(now))
            /\ op' = [name |-> "task_instructions", node |-> n, ok |-> TRUE,
                      result |-> {[r EXCEPT !.delivered_at = to_rfc3339(now)] :
                                    r \in S}]
    /\ UNCHANGED <<run, node, registered, now, served>>
    /\ UNCHANGED <<task_res, nextIns, nextRes, pc, arg, sel, insPulls,
                   resPulls, pushedRes>>

\* Postgres::task_results(ids): Ok(Vec::new()) for empty ids and for an
\* empty selection, else the loop of UPDATE ... RETURNING
Store_task_results ==
    /\ \E ids \in SUBSET InsIds :
        IF ids = {} \/ task_results_match(ids) = {}
        THEN /\ task_res' = task_res
             /\ op' = [name |-> "task_results", ids |-> ids, ok |-> TRUE,
                       result |-> << >>]
        ELSE \E L \in Orders(task_results_match(ids)) :
             \E first \in [1..Len(L) -> task_res] :
                LET stamped == [i \in 1..Len(L) |->
                        [L[i] EXCEPT !.delivered_at = to_rfc3339(now)]]
                IN /\ task_res' = task_results_update(stamped[Len(L)])
                   /\ op' = [name |-> "task_results", ids |-> ids,
                             ok |-> TRUE,
                             result |-> [i \in 1..Len(L) |->
                                task_results_set(first[i], stamped[i])]]
    /\ UNCHANGED <<run, node, registered, now, served>>
    /\ UNCHANGED <<task_ins, nextIns, nextRes, pc, arg, sel, insPulls,
                   resPulls, pushedRes>>

\* Postgres::delete_tasks(ids)
Store_delete_tasks ==
    /\ \E ids \in SUBSET InsIds :
        /\ task_ins' = delete_tasks(task_ins, task_res, ids).ins
        /\ task_res' = delete_tasks(task_ins, task_res, ids).res
        /\ op' = [name |-> "delete_tasks", ids |-> ids, ok |-> TRUE]
    /\ UNCHANGED <<run, node, registered, now, served>>
    /\ UNCHANGED <<nextIns, nextRes, pc, arg, sel, insPulls, resPulls,
                   pushedRes>>

StoreNext ==
    \/ Store_insert_task_instructions
    \/ Store_insert_task_result
    \/ Store_task_instructions
    \/ Store_task_results
    \/ Store_delete_tasks

StoreSpec == Init /\ [][StoreNext]_vars

\* Postgres::task_results(ids, Some(limit)): Ok(Vec::new()) for empty ids;
\* else SELECT ... LIMIT $limit, the loop of UPDATE ... RETURNING for a
\* selection that is not empty, and the commit; after the transaction, a
\* number of results other than limit reaches unimplemented!() and the call
\* panics
Store_task_results_limit ==
    /\ \E ids \in SUBSET InsIds, limit \in 0..MaxLimit :
        IF ids = {}
        THEN /\ task_res' = task_res
             /\ op' = [name |-> "task_results_limit", ids |-> ids,
                       limit |-> limit, ok |-> TRUE, result |-> << >>]
        ELSE \E S \in SUBSET task_results_match(ids) :
             /\ Cardinality(S) =
                    Min(limit, Cardinality(task_results_match(ids)))
             /\ IF S = {}
                THEN /\ task_res' = task_res
                     /\ op' = [name |-> "task_results_limit", ids |-> ids,
                               limit |-> limit, ok |-> (0 = limit),
                               result |-> << >>]
                ELSE \E L \in Orders(S) :
                     \E first \in [1..Len(L) -> task_res] :
                        LET stamped == [i \in 1..Len(L) |->
                                [L[i] EXCEPT !.delivered_at = to_rfc3339(now)]]
                        IN /\ task_res' = task_results_update(stamped[Len(L)])
                           /\ op' = [name |-> "task_results_limit",
                                     ids |-> ids, limit |-> limit,
                                     ok |-> (Len(L) = limit),
                                     result |->
                                        IF Len(L) = limit
                                        THEN [i \in 1..Len(L) |->
                                                task_results_set(first[i],
                                                                 stamped[i])]
                                        ELSE << >>]
    /\ UNCHANGED <<run, node, registered, now, served>>
    /\ UNCHANGED <<task_ins, nextIns, nextRes, pc, arg, sel, insPulls,
                   resPulls, pushedRes>>

\* the Store calls, task_results with and without a limit
LimitNext ==
    \/ Store_insert_task_instructions
    \/ Store_insert_task_result
    \/ Store_task_instructions
    \/ Store_task_results
    \/ Store_task_results_limit
    \/ Store_delete_tasks

LimitSpec == Init /\ [][LimitNext]_vars

\* a server in which the run and one node are registered before the first
\* task is pushed; tasks are pushed through the handlers and pulled and
\* deleted by Store calls, one call at a time
FrameNext ==
    \/ (nextIns = 0 /\ nextRes = 0 /\ create_run)
    \/ (nextIns = 0 /\ nextRes = 0 /\ node = << >> /\ create_node)
    \/ push_task_instructions
    \/ push_task_result
    \/ Store_task_instructions
    \/ Store_task_results
    \/ Store_delete_tasks

FrameSpec == Init /\ [][FrameNext]_vars

\* a server that answers one request at a time (request 1) and whose
\* delete_tasks can return an error
ErrorNext ==
    \/ push_task_instructions
    \/ push_task_result
    \/ pull_task_instructions_select(1)
    \/ pull_task_instructions_update(1)
    \/ pull_task_results_select(1)
    \/ pull_task_results_update(1)
    \/ delete_tasks_instructions(1)
    \/ delete_tasks_results(1)
    \/ delete_tasks_error(1)

ErrorSpec == Init /\ [][ErrorNext]_vars

\* ---------------------------------------------------------------- f64, Option, String
\* an f64: NaN or a number, kept in half seconds so that created_at can
\* have a fraction
NaN == [nan |-> TRUE, v |-> 0]
HalfSecs(h) == [nan |-> FALSE, v |-> h]
Secs(x) == HalfSecs(2 * x)
\* f64::floor
f64_floor(a) == IF a.nan THEN a ELSE HalfSecs(2 * (a.v \div 2))
\* the operators -, >, <=, != of f64: a comparison with NaN is false, except !=
f64_sub(a, b) == IF a.nan \/ b.nan THEN NaN ELSE HalfSecs(a.v - b.v)
f64_gt(a, b) == ~a.nan /\ ~b.nan /\ a.v > b.v
f64_le(a, b) == ~a.nan /\ ~b.nan /\ a.v <= b.v
f64_ne(a, b) == a.nan \/ b.nan \/ a.v # b.v

None == << >>
Some(x) == <<x>>

\* Result<T, FieldViolation>
Ok(value) == [ok |-> TRUE, value |-> value, field |-> ""]
Err(field) == [ok |-> FALSE, value |-> << >>, field |-> field]

\* the string of a Uuid, and the strings of a request that are no Uuid
UuidStr(t) == <<t>>
\* ANCESTRY_SEPARATOR ", ": the characters ',' (0) and ' ' (-1), which no
\* Uuid string contains
ANCESTRY_SEPARATOR == <<0, 0 - 1>>
\* Itertools::join
RECURSIVE join(_, _)
join(list, sep) ==
    IF Len(list) = 0 THEN EmptyStr
    ELSE IF Len(list) = 1 THEN list[1]
    ELSE list[1] \o sep \o join(Tail(list), sep)

\* str::contains(sep)
contains(s, sep) ==
    \E i \in 1..(Len(s) - Len(sep) + 1) :
        SubSeq(s, i, i + Len(sep) - 1) = sep

\* str::split(sep).collect(): the pieces between the matches of sep, found
\* from the left and without overlap; a string without a match, the empty
\* string too, is one piece
RECURSIVE split(_, _)
split(s, sep) ==
    IF ~contains(s, sep) THEN <<s>>
    ELSE LET i == CHOOSE k \in 1..(Len(s) - Len(sep) + 1) :
                    /\ SubSeq(s, k, k + Len(sep) - 1) = sep
                    /\ \A j \in 1..(k - 1) :
                            SubSeq(s, j, j + Len(sep) - 1) # sep
         IN <<SubSeq(s, 1, i - 1)>>
                \o split(SubSeq(s, i + Len(sep), Len(s)), sep)

\* TryFrom<PullTaskInstructionsResult> for pb::TaskIns and
\* TryFrom<PullTaskResultResponse> for pb::TaskRes
PbTaskFrom(value) ==
    [task_id |-> UuidStr(value.id),
     task |-> Some([consumer |->
                        Some([node_id |-> value.consumer_node_id,
                              anonymous |-> value.consumer_anonymous]),
                    delivered_at |-> value.delivered_at,
                    pushed_at |-> value.pushed_at,
                    ancestry |-> split(value.ancestry, ANCESTRY_SEPARATOR),
                    recordset |-> Some(value.recordset),
                    error |-> None])]

\* ---------------------------------------------------------------- service: validation
validate_node_anonymous_only(pb_node, field_path) ==
    IF pb_node.anonymous THEN Ok(TRUE) ELSE Err(field_path \o "." \o "node_id")

\* service::common::validate_node
validate_node(pb_node, field_path) ==
    LET field == field_path \o "." \o "node_id"
    IN IF pb_node.anonymous = FALSE /\ pb_node.node_id = 0 THEN Err(field)
       ELSE IF pb_node.anonymous = TRUE /\ pb_node.node_id # 0 THEN Err(field)
       ELSE Ok(TRUE)

\* impl From<pb::Node> for Node
NodeFrom(value) == IF value.anonymous THEN Anonymous ELSE Id(value.node_id)

Result_try_from_lenient(recordset, error, path) ==
    IF recordset # None THEN Ok([kind |-> "RecordSet", recordset |-> recordset[1]])
    ELSE Ok([kind |-> "Error", recordset |-> << >>])

\* impl TryFrom<(Option<pb::RecordSet>, Option<pb::Error>, &str)> for Result
Result_try_from(recordset, error, path) ==
    LET field == path \o "." \o "recordset" \o " | " \o path \o "." \o "error"
    IN IF recordset # None /\ error = None
       THEN Ok([kind |-> "RecordSet", recordset |-> recordset[1]])
       ELSE IF recordset = None /\ error # None
       THEN Ok([kind |-> "Error", recordset |-> << >>])
       ELSE Err(field)

\* impl TryFrom<(pb::Task, &dyn ValidationConfig, &str)> for Task, the two
\* checks of created_at
Task_created_at(task, path) ==
    LET created_at == f64_floor(task.created_at)
    IN IF f64_gt(created_at, Secs(now))
       THEN Err(path \o "." \o "created_at")
       ELSE IF f64_gt(f64_sub(Secs(now), created_at),
                      Secs(message_expires_after))
       THEN Err(path \o "." \o "created_at")
       ELSE Ok(TRUE)

Task_server_fields_unchecked(task, path) == Ok(TRUE)

\* the checks of delivered_at and pushed_at
Task_server_fields(task, path) ==
    IF task.delivered_at # EmptyStr THEN Err(path \o "." \o "delivered_at")
    ELSE IF f64_ne(task.pushed_at, Secs(0))
    THEN Err(path \o "." \o "pushed_at")
    ELSE Ok(TRUE)

\* impl TryFrom<(pb::Task, &dyn ValidationConfig, &str)> for Task
Task_try_from(task, path) ==
    LET created_at == Task_created_at(task, path)
        server_fields == Task_server_fields(task, path)
        producer == validate_node(task.producer[1], path \o "." \o "producer")
        consumer == validate_node(task.consumer[1], path \o "." \o "consumer")
        result == Result_try_from(task.recordset, task.error, path)
    IN IF ~created_at.ok THEN created_at
       ELSE IF ~server_fields.ok THEN server_fields
       ELSE IF f64_le(task.ttl, Secs(0)) THEN Err(path \o "." \o "ttl")
       ELSE IF task.producer = None THEN Err(path \o "." \o "producer")
       ELSE IF ~producer.ok THEN producer
       ELSE IF task.consumer = None THEN Err(path \o "." \o "consumer")
       ELSE IF ~consumer.ok THEN consumer
       ELSE IF task.task_type = "" THEN Err(path \o "." \o "task_type")
       ELSE IF ~result.ok THEN result
       ELSE Ok([producer |-> NodeFrom(task.producer[1]),
                consumer |-> NodeFrom(task.consumer[1]),
                created_at |-> task.created_at,
                delivered_at |-> task.delivered_at,
                ttl |-> task.ttl,
                task_type |-> task.task_type,
                result |-> result.value])

PushTaskResultRequest_try_from_any_count(request) ==
    LET path == "task_res_list"
        entry == request[Len(request)]
        task_path == path \o "." \o "task"
        task == Task_try_from(entry.task[1], task_path)
    IN IF Len(request) = 0 THEN Err(path)
       ELSE IF entry.task_id # EmptyStr THEN Err(path \o "." \o "task_id")
       ELSE IF entry.task = None THEN Err(task_path)
       ELSE IF Len(entry.task[1].ancestry) = 0
       THEN Err(task_path \o "." \o "ancestry")
       ELSE IF ~task.ok THEN task
       ELSE Ok([task |-> task.value,
                task_ancestry |-> join(entry.task[1].ancestry,
                                       ANCESTRY_SEPARATOR)])

\* impl TryFrom<(pb::PushTaskResRequest, &Config)> for PushTaskResultRequest
PushTaskResultRequest_try_from(request) ==
    LET path == "task_res_list"
        entry == request[Len(request)]
        task_path == path \o "." \o "task"
        task == Task_try_from(entry.task[1], task_path)
    IN IF Len(request) # 1 THEN Err(path)
       ELSE IF entry.task_id # EmptyStr THEN Err(path \o "." \o "task_id")
       ELSE IF entry.task = None THEN Err(task_path)
       ELSE IF Len(entry.task[1].ancestry) = 0
       THEN Err(task_path \o "." \o "ancestry")
       ELSE IF ~task.ok THEN task
       ELSE Ok([task |-> task.value,
                task_ancestry |-> join(entry.task[1].ancestry,
                                       ANCESTRY_SEPARATOR)])

\* impl TryFrom<(pb::PushTaskInsRequest, &Config)> for
\* PushTaskInstructionsRequest, the closure applied to one pb::TaskIns
TaskInstructionRequest_try_from(entry) ==
    LET path == "task_ins_list"
        task_path == path \o "." \o "task"
        task == Task_try_from(entry.task[1], task_path)
    IN IF entry.task_id # EmptyStr THEN Err(path \o "." \o "task_id")
       ELSE IF entry.task = None THEN Err(task_path \o "." \o "task")
       ELSE IF Len(entry.task[1].ancestry) # 0
       THEN Err(task_path \o "." \o "ancestry")
       ELSE IF ~task.ok THEN task
       ELSE Ok([task |-> task.value,
                task_ancestry |-> join(entry.task[1].ancestry,
                                       ANCESTRY_SEPARATOR)])

\* the instructions of a batch that pass, in input order
RECURSIVE ValidInstructions(_)
ValidInstructions(request) ==
    IF Len(request) = 0 THEN << >>
    ELSE IF TaskInstructionRequest_try_from(Head(request)).ok
    THEN <<TaskInstructionRequest_try_from(Head(request)).value>>
            \o ValidInstructions(Tail(request))
    ELSE ValidInstructions(Tail(request))

PushTaskInstructionsRequest_try_from_skipping(request) ==
    IF Len(ValidInstructions(request)) = 0 THEN Err("task_ins_list")
    ELSE Ok(ValidInstructions(request))

\* impl TryFrom<(pb::PushTaskInsRequest, &Config)> for
\* PushTaskInstructionsRequest: collect::<Result<Vec<_>, _>>() returns the
\* first violation
PushTaskInstructionsRequest_try_from(request) ==
    LET items == [k \in 1..Len(request) |->
                    TaskInstructionRequest_try_from(request[k])]
        bad == {k \in 1..Len(request) : ~items[k].ok}
    IN IF Len(request) = 0 THEN Err("task_ins_list")
       ELSE IF bad # {}
       THEN items[CHOOSE k \in bad : \A j \in bad : k <= j]
       ELSE Ok([k \in 1..Len(request) |-> items[k].value])

\* Uuid::parse_str
Uuid_parse_str(id) ==
    IF Len(id) = 1 /\ id[1] \in InsIds THEN Ok(id[1]) ELSE Err("")

\* impl TryFrom<pb::PullTaskResRequest> for PullTaskResultsRequest
PullTaskResultsRequest_try_from(value) ==
    IF \E k \in 1..Len(value.task_ids) : ~Uuid_parse_str(value.task_ids[k]).ok
    THEN Err("task_ids")
    ELSE Ok([ids |-> {Uuid_parse_str(value.task_ids[k]).value :
                        k \in 1..Len(value.task_ids)}])

\* impl TryFrom<pb::PullTaskInsRequest> for PullTaskInstructionsRequest,
\* impl TryFrom<pb::DeleteNodeRequest> for DeleteNodeRequest
NodeRequest_try_from(value) ==
    IF value.node = None THEN Err("node")
    ELSE IF ~validate_node(value.node[1], "node").ok
    THEN validate_node(value.node[1], "node")
    ELSE Ok([node |-> NodeFrom(value.node[1])])

\* Duration::try_from_secs_f64: an error for a negative number and for NaN
Duration_try_from_secs_f64(x) ==
    IF x.nan \/ x.v < 0 THEN Err("") ELSE Ok(x.v)

\* impl TryFrom<pb::PingRequest> for AcknowledgePingRequest
AcknowledgePingRequest_try_from(value) ==
    LET path == "ping_interval"
    IN IF ~NodeRequest_try_from(value).ok THEN NodeRequest_try_from(value)
       ELSE IF ~Duration_try_from_secs_f64(value.ping_interval).ok
       THEN Err(path \o "." \o "ping_interval")
       ELSE IF Duration_try_from_secs_f64(value.ping_interval).value = 0
       THEN Err(path \o "." \o "ping_interval")
       ELSE Ok([node |-> NodeFrom(value.node[1]),
                ping_interval |->
                    Duration_try_from_secs_f64(value.ping_interval).value])

\* ---------------------------------------------------------------- service: requests
PbNodes == [anonymous : BOOLEAN, node_id : (0 - MaxPbNode)..MaxPbNode]
PbError == [code |-> 1]
CreatedAts ==
    {HalfSecs(h) : h \in (2 * (now - message_expires_after - 1))
                            ..(2 * (now + 1))} \cup {NaN}
\* ancestry lists: empty, one empty string, the id of an instruction, two ids
Ancestries ==
    {<< >>, <<EmptyStr>>} \cup {<<UuidStr(t)>> : t \in InsIds}
        \cup {<<UuidStr(1), UuidStr(1)>>}

\* a task that passes, with the given ancestry
PbTask(ancestry) ==
    [producer |-> Some([anonymous |-> TRUE, node_id |-> 0]),
     consumer |-> Some([anonymous |-> FALSE, node_id |-> 1]),
     created_at |-> Secs(now),
     delivered_at |-> EmptyStr,
     pushed_at |-> Secs(0),
     ttl |-> Secs(1),
     ancestry |-> ancestry,
     task_type |-> "t",
     recordset |-> Some(InsBytes),
     error |-> None]

\* the tasks of the requests: PbTask with one field changed, to every value
\* of the field, and the task that carries an error instead of a recordset
PbTasks(ancestry) ==
    LET t == PbTask(ancestry)
    IN {t}
        \cup {[t EXCEPT !.producer = v] : v \in {None} \cup {Some(n) : n \in PbNodes}}
        \cup {[t EXCEPT !.consumer = v] : v \in {None} \cup {Some(n) : n \in PbNodes}}
        \cup {[t EXCEPT !.created_at = v] : v \in CreatedAts}
        \cup {[t EXCEPT !.delivered_at = to_rfc3339(now)]}
        \cup {[t EXCEPT !.pushed_at = Secs(5)]}
        \cup {[t EXCEPT !.ttl = Secs(0)]}
        \cup {[t EXCEPT !.ancestry = v] : v \in Ancestries}
        \cup {[t EXCEPT !.task_type = ""]}
        \cup {[t EXCEPT !.recordset = None]}
        \cup {[t EXCEPT !.error = Some(PbError)]}
        \cup {[t EXCEPT !.recordset = None, !.error = Some(PbError)]}

\* pb::TaskIns and pb::TaskRes
PbEntry(task) == [task_id |-> EmptyStr, task |-> Some(task)]
PbEntries(ancestry) ==
    {PbEntry(t) : t \in PbTasks(ancestry)}
        \cup {[task_id |-> UuidStr(1), task |-> Some(PbTask(ancestry))],
              [task_id |-> EmptyStr, task |-> None]}

\* pb::PushTaskInsRequest.task_ins_list: no entry, one entry, and two
\* entries of which one is the task that passes
PushTaskInsRequests ==
    {<< >>} \cup {<<e>> : e \in PbEntries(<< >>)}
        \cup {<<PbEntry(PbTask(<< >>)), e>> : e \in PbEntries(<< >>)}
        \cup {<<e, PbEntry(PbTask(<< >>))>> : e \in PbEntries(<< >>)}

\* pb::PushTaskResRequest.task_res_list
PushTaskResRequests ==
    {<< >>} \cup {<<e>> : e \in PbEntries(<<UuidStr(1)>>)}
        \cup {<<PbEntry(PbTask(<<UuidStr(1)>>)),
                PbEntry(PbTask(<<UuidStr(2)>>))>>}

PullTaskResRequests ==
    [task_ids : UNION {[1..n -> {EmptyStr} \cup {UuidStr(t) : t \in InsIds}] :
                            n \in 0..2}]
NodeRequests == [node : {None} \cup {Some(n) : n \in PbNodes}]
PingRequests ==
    [node : {None} \cup {Some(n) : n \in PbNodes},
     ping_interval : {NaN, HalfSecs(0 - 2), Secs(0), Secs(1)}]

\* ---------------------------------------------------------------- service: RPCs
\* Each RPC converts the request first and returns Code::InvalidArgument
\* with the violation when the conversion fails; otherwise it calls the
\* handler, here run to its end before the next request. op keeps the
\* request, the status, the field of the violation and the response.
ServiceFrame ==
    /\ served < MaxRequests
    /\ served' = served + 1
    /\ UNCHANGED <<run, now, nextIns, nextRes, pc, arg, sel, insPulls,
                   resPulls, pushedRes>>

Rejected(name, request, field) ==
    /\ op' = [name |-> name, request |-> request,
              status |-> "InvalidArgument", field |-> field,
              response |-> << >>]
    /\ UNCHANGED <<node, registered, task_ins, task_res>>

Answered(name, request, status, response) ==
    op' = [name |-> name, request |-> request, status |-> status,
           field |-> "", response |-> response]

\* handler::common::new_task_instruction, new_task_result: the row of a
\* request whose payload is a recordset. These two functions are the row
\* construction that takes the request type the conversions above produce
\* (model::handler::NewTaskInstructionOrResult); a payload that is an
\* error reaches unimplemented!() in them.
new_task(request, id) ==
    [Row(id, request.task.consumer, request.task_ancestry,
         request.task.result.recordset)
        EXCEPT !.delivered_at = request.task.delivered_at]

\* DriverService::push_task_ins, DriverHandler::push_task_instructions
Driver_push_task_ins ==
    /\ ServiceFrame
    /\ \E request \in PushTaskInsRequests :
        LET r == PushTaskInstructionsRequest_try_from(request)
        IN IF ~r.ok THEN Rejected("PushTaskIns", request, r.field)
           ELSE IF \E k \in 1..Len(r.value) :
                        r.value[k].task.result.kind # "RecordSet"
           THEN \* unimplemented!()
                /\ Answered("PushTaskIns", request, "Unimplemented", << >>)
                /\ UNCHANGED <<node, registered, task_ins, task_res>>
           ELSE \E task_ids \in [1..Len(r.value) -> InsIds] :
                LET model == [k \in 1..Len(r.value) |->
                                new_task(r.value[k], task_ids[k])]
                IN /\ IF insert_task_instructions_ok(model)
                      THEN /\ task_ins' = insert_task_instructions(model)
                           /\ Answered("PushTaskIns", request, "Ok",
                                       [k \in 1..Len(task_ids) |->
                                            UuidStr(task_ids[k])])
                      ELSE /\ task_ins' = task_ins
                           /\ Answered("PushTaskIns", request, "Internal",
                                       << >>)
                   /\ UNCHANGED <<node, registered, task_res>>

\* FleetService::push_task_res, FleetHandler::push_task_result
Fleet_push_task_res ==
    /\ ServiceFrame
    /\ \E request \in PushTaskResRequests :
        LET r == PushTaskResultRequest_try_from(request)
        IN IF ~r.ok THEN Rejected("PushTaskRes", request, r.field)
           ELSE IF r.value.task.result.kind # "RecordSet"
           THEN /\ Answered("PushTaskRes", request, "Unimplemented", << >>)
                /\ UNCHANGED <<node, registered, task_ins, task_res>>
           ELSE \E id \in ResIds :
                LET insert_task_res == new_task(r.value, id)
                IN /\ IF insert_task_result_ok(insert_task_res)
                      THEN /\ task_res' = insert_task_result(insert_task_res)
                           /\ Answered("PushTaskRes", request, "Ok",
                                       [i \in {UuidStr(id)} |-> 0])
                      ELSE /\ task_res' = task_res
                           /\ Answered("PushTaskRes", request, "Internal",
                                       << >>)
                   /\ UNCHANGED <<node, registered, task_ins>>

\* FleetService::pull_task_ins, FleetHandler::pull_task_instructions
Fleet_pull_task_ins ==
    /\ ServiceFrame
    /\ \E request \in NodeRequests :
        LET r == NodeRequest_try_from(request)
        IN IF ~r.ok THEN Rejected("PullTaskIns", request, r.field)
           ELSE \E S \in SUBSET task_instructions_match(r.value.node) :
                /\ Cardinality(S) =
                     Min(PullLimit,
                         Cardinality(task_instructions_match(r.value.node)))
                /\ task_ins' =
                     task_instructions_update(Ids(S), to_rfc3339(now))
                /\ Answered("PullTaskIns", request, "Ok",
                        {PbTaskFrom([x EXCEPT
                                        !.delivered_at = to_rfc3339(now)]) :
                            x \in S})
                /\ UNCHANGED <<node, registered, task_res>>

\* DriverService::pull_task_res, DriverHandler::pull_task_results
Driver_pull_task_res ==
    /\ ServiceFrame
    /\ \E request \in PullTaskResRequests :
        LET r == PullTaskResultsRequest_try_from(request)
        IN IF ~r.ok THEN Rejected("PullTaskRes", request, r.field)
           ELSE LET ids == r.value.ids
                IN IF ids = {} \/ task_results_match(ids) = {}
                   THEN /\ task_ins' =
                            delete_tasks(task_ins, task_res, ids).ins
                        /\ task_res' =
                            delete_tasks(task_ins, task_res, ids).res
                        /\ Answered("PullTaskRes", request, "Ok", << >>)
                        /\ UNCHANGED <<node, registered>>
                   ELSE \E L \in Orders(task_results_match(ids)) :
                        \E first \in [1..Len(L) -> task_res] :
                        LET stamped == [i \in 1..Len(L) |->
                                [L[i] EXCEPT
                                    !.delivered_at = to_rfc3339(now)]]
                            updated == task_results_update(stamped[Len(L)])
                        IN /\ task_ins' =
                                delete_tasks(task_ins, updated, ids).ins
                           /\ task_res' =
                                delete_tasks(task_ins, updated, ids).res
                           /\ Answered("PullTaskRes", request, "Ok",
                                [i \in 1..Len(L) |->
                                    PbTaskFrom(task_results_set(first[i],
                                                                stamped[i]))])
                           /\ UNCHANGED <<node, registered>>

\* FleetService::delete_node, FleetHandler::delete_node
Fleet_delete_node ==
    /\ ServiceFrame
    /\ \E request \in NodeRequests :
        LET r == NodeRequest_try_from(request)
        IN IF ~r.ok THEN Rejected("DeleteNode", request, r.field)
           ELSE /\ IF r.value.node.kind = "Id"
                   THEN /\ node' = delete_node(r.value.node.id)
                        /\ registered' =
                             [i \in DOMAIN node' |-> registered[i]]
                   ELSE UNCHANGED <<node, registered>>
                /\ Answered("DeleteNode", request, "Ok", << >>)
                /\ UNCHANGED <<task_ins, task_res>>

\* FleetService::ping, FleetHandler::acknowledge_ping
Fleet_ping ==
    /\ ServiceFrame
    /\ \E request \in PingRequests :
        LET r == AcknowledgePingRequest_try_from(request)
        IN IF ~r.ok THEN Rejected("Ping", request, r.field)
           ELSE LET node_id == NodeToPair(r.value.node)[1]
                    update == [id |-> node_id,
                               online_until |->
                                    now + (r.value.ping_interval \div 2),
                               ping_interval |->
                                    r.value.ping_interval \div 2]
                IN /\ node' = update_ping_table(update)
                   /\ registered' =
                        [i \in DOMAIN node |->
                            IF i = node_id
                            THEN [registered[i] EXCEPT !.pinged = TRUE]
                            ELSE registered[i]]
                   /\ Answered("Ping", request, "Ok",
                               update_ping_result(update))
                   /\ UNCHANGED <<task_ins, task_res>>

ServiceNext ==
    \/ Driver_push_task_ins
    \/ Fleet_push_task_res
    \/ Fleet_pull_task_ins
    \/ Driver_pull_task_res
    \/ Fleet_delete_node
    \/ Fleet_ping

ServiceSpec == Init /\ [][ServiceNext]_vars

\* ---------------------------------------------------------------- service: ancestry
\* the characters of an ancestry element: ',', ' ' and a character of a Uuid
AncestryChars == {0, 0 - 1, 1}
AncestryStrings == UNION {[1..n -> AncestryChars] : n \in 0..MaxStrLen}
AncestryLists == UNION {[1..n -> AncestryStrings] : n \in 0..MaxAncestry}

\* the ancestry of a task on its way through the server: the list of the
\* request is joined with ANCESTRY_SEPARATOR into the column ancestry
\* (TryFrom for PushTaskInstructionsRequest, PushTaskResultRequest), and the
\* column is split on ANCESTRY_SEPARATOR into the list of the response
\* (TryFrom for pb::TaskIns, pb::TaskRes)
Ancestry_store_and_serialise ==
    /\ \E list \in AncestryLists :
        LET task_ancestry == join(list, ANCESTRY_SEPARATOR)
        IN op' = [name |-> "ancestry", list |-> list,
                  task_ancestry |-> task_ancestry,
                  ancestry |-> split(task_ancestry, ANCESTRY_SEPARATOR)]
    /\ UNCHANGED <<run, node, registered, now, served>>
    /\ UNCHANGED <<task_ins, task_res, nextIns, nextRes, pc, arg, sel,
                   insPulls, resPulls, pushedRes>>

AncestryNext == Ancestry_store_and_serialise

AncestrySpec == Init /\ [][AncestryNext]_vars

C7_UpdatePingFrame ==
    [][op'.name = "update_ping" =>
        /\ DOMAIN node' = DOMAIN node
        /\ \A i \in DOMAIN node :
              IF i = op'.id
              THEN /\ node'[i].online_until = op'.ping.online_until
                   /\ node'[i].ping_interval = op'.ping.ping_interval
              ELSE node'[i] = node[i]]_vars

\* C8: right after create_node the node is listed for an existing run, and a
\* node that has sent no heartbeat since create_node at time t with interval D
\* is not listed at any time after t + D.
C8_LivenessDerivation ==
    /\ (op.name = "create_node" /\ op.ok) =>
            \A r \in run : op.id \in nodes(r, now)
    /\ \A i \in DOMAIN node : \A r \in run :
            (~registered[i].pinged
                /\ now > registered[i].at + registered[i].interval)
            => i \notin nodes(r, now)

\* C9: list_nodes(run_id, now) is empty for an unknown run, otherwise exactly
\* the ids of the node rows with online_until >= now; no table changes.
C9_ListNodes ==
    [][op'.name = "nodes" =>
        /\ op'.result = IF op'.id \in run
                         THEN {i \in DOMAIN node : ~(node[i].online_until < op'.at)}
                         ELSE {}
        /\ UNCHANGED <<run, node, task_ins, task_res>>]_vars

\* a listing for an existing run that contains a node whose deadline is the
\* current instant and leaves out an expired node
C9_Witness ==
    /\ op.name = "nodes"
    /\ op.id \in run
    /\ \E i \in op.result : node[i].online_until = op.at
    /\ \E i \in DOMAIN node : i \notin op.result

\* C16: create_run and create_node answer an id collision by drawing a fresh
\* id: whatever new_id returns first, the call succeeds and returns the id
\* of a row it has inserted.
C16_CollisionRetried ==
    [][/\ op'.name = "create_run" =>
            (op'.ok /\ op'.id \notin run /\ run' = run \cup {op'.id})
       /\ op'.name = "create_node" =>
            (/\ op'.ok
             /\ op'.id \notin DOMAIN node
             /\ DOMAIN node' = (DOMAIN node) \cup {op'.id})]_vars

\* C17: no run row and no node row has the id 0.
C17_IdsNonZero == 0 \notin run /\ 0 \notin DOMAIN node

\* create_run and create_node have filled both tables
C17_Witness ==
    /\ Cardinality(run) = MaxRuns
    /\ Cardinality(DOMAIN node) = MaxNodes
    /\ op.name \in {"create_run", "create_node"}
    /\ op.ok

\* ---------------------------------------------------------------- task claims
\* the results pushed with ancestry [t]
PushedFor(t) ==
    {u \in DOMAIN pushedRes : pushedRes[u].row.ancestry = AncestryOf(t)}

\* C1: under every interleaving of pull_task_instructions calls, every
\* instruction id is in the result set of at most one call.
C1_AtMostOnceInstruction == \A i \in InsIds : insPulls[i] <= 1

\* C2: every task_res row is in the response of at most one
\* pull_task_results call.
C2_AtMostOnceResult == \A u \in ResIds : resPulls[u] <= 1

\* C3: task_results(ids) inserts and deletes no row, changes no table but
\* task_res, marks the rows it selected as delivered and leaves every other
\* task_res row as it was.
C3_PullResultsFrame ==
    [][\A p \in Procs :
        (pc[p] = "tr_selected" /\ pc'[p] = "tr_committed") =>
            LET selected == {sel[p][k].id : k \in 1..Len(sel[p])}
            IN /\ UNCHANGED <<run, node, task_ins>>
               /\ Ids(task_res') = Ids(task_res)
               /\ \A r \in task_res :
                    IF r.id \in selected
                    THEN \E x \in task_res' :
                            x.id = r.id /\ x.delivered_at # EmptyStr
                    ELSE r \in task_res']_vars

\* C4: for an instruction T that was pushed and pulled and has one pushed
\* result U with recordset B, pull_task_results({T}) returns exactly one
\* result, with id U, ancestry [T] and recordset B.
C4_RoundTrip ==
    [][\A p \in Procs : \A t \in InsIds : \A u \in ResIds :
        (/\ PushedFor(t) = {u}
         /\ pushedRes[u].pulled
         /\ arg'[p].ids = {t}
         /\ pc'[p] = "tr_committed") =>
            /\ (pc[p] = "tr_selected") =>
                    /\ Len(sel'[p]) = 1
                    /\ sel'[p][1].id = u
                    /\ sel'[p][1].ancestry = AncestryOf(t)
                    /\ sel'[p][1].recordset = pushedRes[u].row.recordset
            /\ (pc[p] = "idle" /\ resPulls[u] = 0) => sel'[p] # << >>]_vars

\* C5: a pull of node N returns, and marks as delivered, only instructions
\* with consumer_anonymous = false and consumer_node_id = N; an anonymous pull
\* only instructions with consumer_anonymous = true and consumer_node_id = 0.
C5_ConsumerMatching ==
    [][\A p \in Procs :
        (pc[p] = "ti_selected" /\ pc'[p] = "idle") =>
            \A r \in task_ins :
                (r \notin task_ins'
                    \/ (r.id \in Ids(Range(sel[p]))
                            /\ insPulls' # insPulls))
                => /\ arg[p].node.kind = "Id" =>
                        (~r.consumer_anonymous
                            /\ r.consumer_node_id = arg[p].node.id)
                   /\ arg[p].node.kind = "Anonymous" =>
                        (r.consumer_anonymous /\ r.consumer_node_id = 0)]_vars

\* a node has pulled its instruction while an instruction of another
\* consumer is stored and stays undelivered
C5_Witness ==
    \E r1, r2 \in task_ins :
        /\ ~r1.consumer_anonymous
        /\ r1.delivered_at # EmptyStr
        /\ insPulls[r1.id] = 1
        /\ r2.delivered_at = EmptyStr
        /\ insPulls[r2.id] = 0
        /\ (r2.consumer_anonymous \/ r2.consumer_node_id # r1.consumer_node_id)

\* C10: when pull_task_results({T}) returns the result of a delivered
\* instruction T with one pushed result, the task_ins row T and the task_res
\* row of the result are deleted and a second pull_task_results({T}) finds
\* nothing.
C10_PurgeAfterConsumption ==
    [][\A p \in Procs : \A t \in InsIds : \A u \in ResIds :
        (/\ pc[p] = "dt_ins_deleted" /\ pc'[p] = "idle"
         /\ arg[p].ids = {t}
         /\ PushedFor(t) = {u}
         /\ pushedRes[u].pulled
         /\ \E k \in 1..Len(sel[p]) : sel[p][k].ancestry = AncestryOf(t)) =>
            /\ t \notin Ids(task_ins')
            /\ u \notin Ids(task_res')
            /\ \A r \in task_res' : r.ancestry # AncestryOf(t)]_vars

\* C11: delete_tasks(ids) deletes an instruction only if its id is in ids,
\* it is delivered and a delivered task_res row whose ancestry is its id
\* exists; it deletes no undelivered result, so an instruction of ids that is
\* undelivered, or has no result, or has an undelivered result, stays stored
\* together with that result.
C11_DeleteOnlyConsumed ==
    [][\A p \in Procs :
        /\ (pc[p] = "tr_committed" /\ pc'[p] = "dt_ins_deleted") =>
            /\ task_ins' \subseteq task_ins
            /\ task_res' = task_res
            /\ \A r \in task_ins \ task_ins' :
                    /\ r.id \in arg[p].ids
                    /\ r.delivered_at # EmptyStr
                    /\ \E x \in task_res :
                            /\ x.ancestry = AncestryOf(r.id)
                            /\ x.delivered_at # EmptyStr
        /\ (pc[p] = "dt_ins_deleted" /\ pc'[p] = "idle") =>
            /\ task_ins' = task_ins
            /\ task_res' \subseteq task_res
            /\ \A x \in task_res \ task_res' :
                    /\ x.delivered_at # EmptyStr
                    /\ \E i \in arg[p].ids : x.ancestry = AncestryOf(i)]_vars

\* a delete_tasks of both instruction ids has run its first statement: one
\* instruction is gone, the other one is stored, delivered, and its result
\* is stored and still undelivered
C11_Witness ==
    \E p \in Procs :
        /\ pc[p] = "dt_ins_deleted"
        /\ arg[p].ids = InsIds
        /\ nextIns = MaxIns
        /\ Cardinality(task_ins) = MaxIns - 1
        /\ \E r \in task_ins : \E x \in task_res :
                /\ r.delivered_at # EmptyStr
                /\ x.ancestry = AncestryOf(r.id)
                /\ x.delivered_at = EmptyStr

\* C12: for every store state and every id set, delete_tasks(ids) followed
\* by delete_tasks(ids) leaves the tables that one delete_tasks(ids) leaves.
C12_DeleteIdempotent ==
    \A ids \in SUBSET InsIds :
        LET once == delete_tasks(task_ins, task_res, ids)
            twice == delete_tasks(once.ins, once.res, ids)
        IN twice = once

\* a store state in which delete_tasks of some ids deletes an instruction
\* and a result, while another instruction is kept
C12_Witness ==
    \E ids \in SUBSET InsIds :
        LET once == delete_tasks(task_ins, task_res, ids)
        IN /\ once.ins # task_ins
           /\ once.ins # {}
           /\ once.res # task_res

\* the recordset of a synthesised result: the node-unavailable error record,
\* different from every recordset a node pushes
NodeUnavailable == <<0>>

\* C13: pull_task_results({T}) for an instruction T whose consumer node has
\* no node row or has online_until < now, with no result of T stored, returns
\* one synthesised result with ancestry [T] and the node-unavailable record,
\* and creates no task_res row.
C13_OfflineSynthesis ==
    [][\A p \in Procs : \A t \in InsIds :
        (/\ pc[p] = "idle" /\ pc'[p] # "idle"
         /\ arg'[p].kind = "ids" /\ arg'[p].ids = {t}
         /\ \E r \in task_ins :
                /\ r.id = t
                /\ ~r.consumer_anonymous
                /\ IF r.consumer_node_id \in DOMAIN node
                   THEN node[r.consumer_node_id].online_until < now
                   ELSE TRUE
         /\ \A x \in task_res : x.ancestry # AncestryOf(t)) =>
            /\ pc'[p] = "tr_committed"
            /\ Len(sel'[p]) = 1
            /\ sel'[p][1].ancestry = AncestryOf(t)
            /\ sel'[p][1].recordset = NodeUnavailable
            /\ task_res' = task_res]_vars

\* C14: a pull_task_results({T}) that runs while results of T are pushed
\* marks a pushed result of T as delivered only if it returns it.
C14_DeliveredOnlyIfReturned ==
    [][\A p \in Procs : \A t \in InsIds :
        (/\ pc[p] = "tr_selected" /\ pc'[p] = "tr_committed"
         /\ arg[p].ids = {t}) =>
            \A u \in PushedFor(t) : \A r \in task_res : \A x \in task_res' :
                (/\ r.id = u /\ x.id = u
                 /\ r.ancestry = AncestryOf(t)
                 /\ r.delivered_at = EmptyStr
                 /\ x.delivered_at # EmptyStr) =>
                    \E k \in 1..Len(sel'[p]) : sel'[p][k].id = u]_vars

\* C15: an instruction addressed to a consumer that keeps calling
\* pull_task_instructions is eventually returned by one of its pulls (and
\* marked delivered by it), whatever else is pushed.
C15_EventuallyPulled ==
    \A i \in InsIds :
        (\E r \in task_ins :
            /\ r.id = i
            /\ ConsumerClause(LiveConsumer, r)
            /\ r.delivered_at = EmptyStr)
        ~> (\E r \in task_ins : r.id = i /\ r.delivered_at # EmptyStr)

\* C18: a successful push_task_instructions(R) returns one id per
\* instruction of R, in input order, the ids pairwise distinct and none of
\* them the id of a stored task, and afterwards task_ins holds for the k-th
\* id exactly one row, undelivered, with the fields of the k-th instruction.
C18_PushInstructions ==
    [][(op'.name = "push_task_instructions" /\ op'.ok) =>
        /\ Len(op'.ids) = Len(op'.request)
        /\ \A j, k \in 1..Len(op'.ids) : j # k => op'.ids[j] # op'.ids[k]
        /\ \A k \in 1..Len(op'.ids) :
            /\ op'.ids[k] \notin Ids(task_ins)
            /\ {r \in task_ins' : r.id = op'.ids[k]}
                    = {[id |-> op'.ids[k],
                        consumer_node_id |-> op'.request[k].id,
                        consumer_anonymous |->
                            (op'.request[k].kind = "Anonymous"),
                        delivered_at |-> EmptyStr,
                        pushed_at |-> now,
                        ancestry |-> EmptyStr,
                        recordset |-> InsBytes]}]_vars

\* a push of two instructions for different consumers has succeeded
C18_Witness ==
    /\ op.name = "push_task_instructions"
    /\ op.ok
    /\ Len(op.ids) = 2
    /\ op.request[1] # op.request[2]
    /\ Cardinality(task_ins) = 2

\* C20: an insert whose primary key is stored already fails and changes no
\* table: insert_run, insert_node, insert_task_instructions (none of the
\* rows of the call is inserted), insert_task_result.
C20_DuplicateKeyFails ==
    [][/\ (op'.name = "create_run" /\ op'.id \in run) =>
            (~op'.ok /\ UNCHANGED storeVars)
       /\ (op'.name = "create_node" /\ op'.id \in DOMAIN node) =>
            (~op'.ok /\ UNCHANGED storeVars)
       /\ (op'.name = "push_task_instructions"
            /\ \E k \in 1..Len(op'.ids) : op'.ids[k] \in Ids(task_ins)) =>
            (~op'.ok /\ UNCHANGED storeVars)
       /\ (op'.name = "push_task_result" /\ op'.id \in Ids(task_res)) =>
            (~op'.ok /\ UNCHANGED storeVars)]_vars

\* a bulk insert of two instructions has failed on one stored id while its
\* other id was free, and the run, node and task_res inserts have rows to
\* collide with
C20_Witness ==
    /\ op.name = "push_task_instructions"
    /\ ~op.ok
    /\ Len(op.ids) = 2
    /\ op.ids[1] \in Ids(task_ins)
    /\ op.ids[2] \notin Ids(task_ins)
    /\ run # {} /\ DOMAIN node # {} /\ task_res # {}

\* C19: after a pull_task_results(ids) has committed and its delete_tasks
\* was lost in a crash, a later pull_task_results with the same ids returns
\* no result that the lost call had returned.
C19_LostDeleteNoDoubleDelivery ==
    [][(/\ pc[1] = "crashed"
        /\ pc[2] = "tr_selected" /\ pc'[2] = "tr_committed"
        /\ arg[2].ids = arg[1].ids) =>
            \A k \in 1..Len(sel'[2]) :
                sel'[2][k].id \notin Ids(Range(sel[1]))]_vars

\* ---------------------------------------------------------------- claims C21 ..
\* C21: delete_node succeeds always; for an identified node it removes
\* exactly the row of that id (no row: nothing changes), for an anonymous
\* node it changes nothing; a list_nodes right after the delete of an
\* identified node does not list it, and a heartbeat for it right after the
\* delete returns false.
C21_DeleteNode ==
    [][/\ op'.name = "delete_node" =>
            /\ op'.ok
            /\ node' = IF op'.kind = "Id"
                       THEN [i \in (DOMAIN node) \ {op'.id} |-> node[i]]
                       ELSE node
       /\ (op.name = "delete_node" /\ op.kind = "Id") =>
            /\ op'.name = "nodes" => op.id \notin op'.result
            /\ (op'.name = "update_ping" /\ op'.id = op.id) => ~op'.ok]_vars

\* C22: insert_task_instructions of an empty slice and delete_tasks of an
\* empty id set return Ok, task_results of an empty id set returns an empty
\* Vec, and none of the three changes a row of any table.
C22_EmptyInputs ==
    [][/\ (op'.name = "insert_task_instructions"
                /\ op'.instructions = << >>)
            => (op'.ok /\ UNCHANGED storeVars)
       /\ (op'.name = "delete_tasks" /\ op'.ids = {})
            => (op'.ok /\ UNCHANGED storeVars)
       /\ (op'.name = "task_results" /\ op'.ids = {})
            => (op'.ok /\ op'.result = << >> /\ UNCHANGED storeVars)]_vars

\* delete_tasks({}) has returned on tables that hold a delivered instruction
\* and its delivered result, and an undelivered result as well
C22_Witness ==
    /\ op.name = "delete_tasks"
    /\ op.ids = {}
    /\ \E r \in task_ins : r.delivered_at # EmptyStr
            /\ \E x \in task_res : x.ancestry = AncestryOf(r.id)
                    /\ x.delivered_at # EmptyStr
    /\ \E x \in task_res : x.delivered_at = EmptyStr

\* ---------------------------------------------------------------- service claims
Pushes == {"PushTaskIns", "PushTaskRes"}
RPCs == Pushes \cup {"PullTaskIns", "PullTaskRes", "DeleteNode", "Ping"}
\* the tasks of a push request
TasksOf(request) ==
    {request[k].task[1] : k \in {j \in 1..Len(request) : request[j].task # None}}
\* the rows a step has inserted
Inserted == (task_ins' \ task_ins) \cup (task_res' \ task_res)

\* C23: an RPC that answers InvalidArgument leaves every table as it was,
\* and a PushTaskIns batch with an instruction that does not pass is
\* answered InvalidArgument and inserts no instruction.
C23_RejectedNoEffect ==
    [][/\ (op'.name \in RPCs /\ op'.status = "InvalidArgument")
            => UNCHANGED storeVars
       /\ (op'.name = "PushTaskIns"
            /\ \E k \in 1..Len(op'.request) :
                    ~TaskInstructionRequest_try_from(op'.request[k]).ok)
            => (op'.status = "InvalidArgument" /\ task_ins' = task_ins)]_vars

\* a batch of two whose first instruction passes and whose second does not
\* has been rejected while the tables hold rows
C23_Witness ==
    /\ op.name = "PushTaskIns"
    /\ op.status = "InvalidArgument"
    /\ Len(op.request) = 2
    /\ TaskInstructionRequest_try_from(op.request[1]).ok
    /\ task_ins # {}

\* C24: a node reference passes exactly when it is (false, id # 0) or
\* (true, 0), and fails with a violation on its node_id; the rule holds
\* for the node of PullTaskIns, DeleteNode and Ping and for the producer
\* and the consumer of every pushed task.
NodePairOk(n) ==
    \/ (n.anonymous = FALSE /\ n.node_id # 0)
    \/ (n.anonymous = TRUE /\ n.node_id = 0)

C24_ValidateNode ==
    [][/\ (op'.name \in {"PullTaskIns", "DeleteNode", "Ping"}
            /\ op'.request.node # None)
            => IF NodePairOk(op'.request.node[1])
               THEN op'.field # "node.node_id"
               ELSE op'.status = "InvalidArgument"
                        /\ op'.field = "node.node_id"
       /\ op'.name \in Pushes =>
            LET list == IF op'.name = "PushTaskIns"
                        THEN "task_ins_list" ELSE "task_res_list"
            IN /\ \A t \in TasksOf(op'.request) :
                    (\/ (t.producer # None /\ ~NodePairOk(t.producer[1]))
                     \/ (t.consumer # None /\ ~NodePairOk(t.consumer[1])))
                    => op'.status = "InvalidArgument"
               /\ op'.field = list \o ".task.producer.node_id"
                    => \E t \in TasksOf(op'.request) :
                        t.producer # None /\ ~NodePairOk(t.producer[1])
               /\ op'.field = list \o ".task.consumer.node_id"
                    => \E t \in TasksOf(op'.request) :
                        t.consumer # None /\ ~NodePairOk(t.consumer[1])]_vars

\* a pushed instruction has been rejected for its consumer (true, 1)
C24_Witness ==
    /\ op.name = "PushTaskIns"
    /\ op.status = "InvalidArgument"
    /\ op.field = "task_ins_list.task.consumer.node_id"
    /\ \E t \in TasksOf(op.request) :
            t.consumer = Some([anonymous |-> TRUE, node_id |-> 1])

\* C25: a pushed task that reaches the check of created_at is rejected on
\* created_at exactly when floor(created_at) <= now and
\* now - floor(created_at) <= message_expires_after do not both hold.
InWindow(created_at) ==
    /\ f64_le(f64_floor(created_at), Secs(now))
    /\ f64_le(f64_sub(Secs(now), f64_floor(created_at)),
              Secs(message_expires_after))

C25_CreatedAtWindow ==
    [][(op'.name \in Pushes
            /\ Len(op'.request) = 1
            /\ op'.request[1].task_id = EmptyStr
            /\ op'.request[1].task # None
            /\ (Len(op'.request[1].task[1].ancestry) = 0
                    <=> op'.name = "PushTaskIns"))
        => LET list == IF op'.name = "PushTaskIns"
                       THEN "task_ins_list" ELSE "task_res_list"
           IN (op'.status = "InvalidArgument"
                    /\ op'.field = list \o ".task.created_at")
                <=> ~InWindow(op'.request[1].task[1].created_at)]_vars

OnePayload(t) == (t.recordset # None) # (t.error # None)

C27_PayloadExclusive ==
    [][op'.name \in Pushes =>
        LET list == IF op'.name = "PushTaskIns"
                    THEN "task_ins_list" ELSE "task_res_list"
            field == list \o ".task.recordset | " \o list \o ".task.error"
        IN /\ (\E t \in TasksOf(op'.request) : ~OnePayload(t))
                => op'.status = "InvalidArgument"
           /\ op'.field = field
                => \E t \in TasksOf(op'.request) : ~OnePayload(t)
           /\ (op'.name = "PushTaskIns"
                    /\ op'.request = <<PbEntry(
                            [PbTask(<< >>) EXCEPT !.recordset = None,
                                                  !.error = Some(PbError)])>>)
                => op'.status # "InvalidArgument"]_vars

\* a task with a recordset and an error has been rejected on the payload
C27_Witness ==
    /\ op.name = "PushTaskRes"
    /\ op.status = "InvalidArgument"
    /\ op.field = "task_res_list.task.recordset | task_res_list.task.error"
    /\ \E t \in TasksOf(op.request) : t.recordset # None /\ t.error # None

\* C28: PushTaskIns answers InvalidArgument to an instruction with a
\* non-empty ancestry list and PushTaskRes to a result with an empty one;
\* every instruction row a push inserts has ancestry "" and every result
\* row a push inserts has a non-empty ancestry.
C28_AncestryRule ==
    [][/\ (op'.name = "PushTaskIns"
            /\ \E t \in TasksOf(op'.request) : Len(t.ancestry) # 0)
            => op'.status = "InvalidArgument"
       /\ (op'.name = "PushTaskRes"
            /\ \E t \in TasksOf(op'.request) : Len(t.ancestry) = 0)
            => op'.status = "InvalidArgument"
       /\ op'.name \in Pushes =>
            /\ \A r \in task_ins' \ task_ins : r.ancestry = EmptyStr
            /\ \A r \in task_res' \ task_res : r.ancestry # EmptyStr]_vars

\* C29: PushTaskRes with no entry or with two entries and PushTaskIns with
\* no entry are answered InvalidArgument; PushTaskRes answered Ok has
\* inserted one row into task_res, changed no other row, and its response
\* maps the id of that row, and nothing else, to 0.
C29_RequestCardinality ==
    [][/\ (op'.name = "PushTaskRes" /\ Len(op'.request) # 1)
            => (op'.status = "InvalidArgument"
                    /\ op'.field = "task_res_list")
       /\ (op'.name = "PushTaskIns" /\ Len(op'.request) = 0)
            => op'.status = "InvalidArgument"
       /\ (op'.name = "PushTaskRes" /\ op'.status = "Ok")
            => /\ task_res \subseteq task_res'
               /\ Cardinality(task_res' \ task_res) = 1
               /\ task_ins' = task_ins
               /\ \A r \in task_res' \ task_res :
                    /\ DOMAIN op'.response = {UuidStr(r.id)}
                    /\ op'.response[UuidStr(r.id)] = 0]_vars

\* a second PushTaskRes has been answered Ok
C29_Witness ==
    /\ op.name = "PushTaskRes"
    /\ op.status = "Ok"
    /\ Len(op.request) = 1
    /\ Cardinality(task_res) = 2

\* C30: once delivered_at of a task_ins row or of a task_res row is
\* non-empty, no step changes it for as long as the row exists.
C30_DeliveredAtWrittenOnce ==
    [][/\ \A r \in task_ins : \A x \in task_ins' :
            (r.delivered_at # EmptyStr /\ x.id = r.id)
                => x.delivered_at = r.delivered_at
       /\ \A r \in task_res : \A x \in task_res' :
            (r.delivered_at # EmptyStr /\ x.id = r.id)
                => x.delivered_at = r.delivered_at]_vars

\* ---------------------------------------------------------------- claims of the last sections
\* C31: task_results with a limit L completes without failure and returns
\* at most L results, whatever the tables hold.
C31_LimitedPull ==
    op.name = "task_results_limit"
        => (op.ok /\ Len(op.result) <= op.limit)

\* C32: delivery is all or nothing. A pull whose transaction fails changes
\* no row; a pull that succeeds has set delivered_at, with one timestamp, on
\* every row it returns; and after every step each row with a non-empty
\* delivered_at has been returned by a successful pull.
C32_AtomicDelivery ==
    [][/\ \A p \in Procs :
            (pc[p] = "ti_selected" /\ pc'[p] = "idle") =>
                IF Ids(Range(sel[p])) \subseteq Ids(task_ins)
                THEN \A i \in Ids(Range(sel[p])) : \A x \in task_ins' :
                        x.id = i => x.delivered_at = to_rfc3339(now)
                ELSE task_ins' = task_ins
       /\ \A p \in Procs :
            (pc[p] = "tr_selected" /\ pc'[p] = "idle") => task_res' = task_res
       /\ \A p \in Procs :
            (pc[p] = "tr_selected" /\ pc'[p] = "tr_committed") =>
                \A k \in 1..Len(sel'[p]) :
                    /\ sel'[p][k].delivered_at = to_rfc3339(now)
                    /\ \A x \in task_res' :
                        x.id = sel'[p][k].id
                            => x.delivered_at = to_rfc3339(now)
       /\ \A x \in task_ins' :
            x.delivered_at # EmptyStr => insPulls'[x.id] >= 1
       /\ \A x \in task_res' :
            x.delivered_at # EmptyStr => resPulls'[x.id] >= 1]_vars

\* C33: a delete_tasks call removes a task_res row with ancestry [T] only
\* if no task_ins row T is stored once the call has returned.
C33_ResultDeletedWithInstruction ==
    [][op'.name = "delete_tasks" =>
        \A x \in task_res \ task_res' : \A r \in task_ins' :
            x.ancestry # AncestryOf(r.id)]_vars

\* C34: delete_tasks(ids) removes rows and changes none; it leaves every
\* task_ins row whose id is not in ids and every task_res row whose ancestry
\* is not in ids as they were, and it leaves the node and run tables alone.
C34_DeleteTasksFrame ==
    [][(op'.name = "delete_tasks" /\ nextIns' = nextIns
            /\ nextRes' = nextRes) =>
        /\ task_ins' \subseteq task_ins
        /\ task_res' \subseteq task_res
        /\ \A r \in task_ins : r.id \notin op'.ids => r \in task_ins'
        /\ \A x \in task_res :
                (\A i \in op'.ids : x.ancestry # AncestryOf(i))
                    => x \in task_res'
        /\ node' = node
        /\ run' = run]_vars

\* delete_tasks({1}) has removed instruction 1 while the delivered
\* instruction 2 and a result of instruction 2 are stored, with a run and a
\* node registered
C34_Witness ==
    /\ op.name = "delete_tasks"
    /\ op.ids = {1}
    /\ nextIns = MaxIns
    /\ 1 \notin Ids(task_ins)
    /\ \E r \in task_ins : r.id = 2 /\ r.delivered_at # EmptyStr
    /\ \E x \in task_res : x.ancestry = AncestryOf(2)
    /\ run # {}
    /\ node # << >>

\* C35: in every state, a task_res row with ancestry [T] is stored only if
\* the task_ins row T is stored with a non-empty delivered_at.
C35_ResultOnlyForDelivered ==
    \A x \in task_res : \E r \in task_ins :
        /\ x.ancestry = AncestryOf(r.id)
        /\ r.delivered_at # EmptyStr

\* C36: at most one result per instruction reaches the Driver; in
\* particular the response of a PullTaskRes call holds at most one result
\* of ancestry [T] for every instruction id T, however many results were
\* pushed with that ancestry.
C36_OneResultPerInstruction ==
    (op.name = "PullTaskRes" /\ op.status = "Ok") =>
        \A t \in InsIds :
            Cardinality({k \in 1..Len(op.response) :
                op.response[k].task[1].ancestry = <<UuidStr(t)>>}) <= 1

\* C37: the Driver's pull loses no result. Every task_res row that a
\* pull_task_results marks delivered is in the results of that call, and
\* when delete_tasks returns an error after task_results has succeeded,
\* every result the call holds is still returned or is still stored
\* undelivered, so that a later pull returns it.
C37_NoResultLost ==
    [][\A p \in Procs :
        /\ (pc[p] = "tr_selected" /\ pc'[p] = "tr_committed") =>
            \A r \in task_res : \A x \in task_res' :
                (/\ r.id = x.id
                 /\ r.delivered_at = EmptyStr
                 /\ x.delivered_at # EmptyStr) =>
                    \E k \in 1..Len(sel'[p]) : sel'[p][k].id = x.id
        /\ (pc[p] = "tr_committed" /\ pc'[p] = "idle") =>
            \A k \in 1..Len(sel[p]) :
                \/ op'.ok
                \/ \E x \in task_res' :
                        /\ x.id = sel[p][k].id
                        /\ x.delivered_at = EmptyStr]_vars

\* C38: a PushTaskIns or PushTaskRes request that passes validation is
\* handled without a panic, its payload a recordset or an error record: the
\* rows are built and given to the store, and the call answers Ok (or
\* Internal when the store refuses the insert).
C38_ValidatedPushHandled ==
    (op.name \in Pushes /\ op.status # "InvalidArgument")
        => op.status \in {"Ok", "Internal"}

\* C39: an ancestry list whose elements do not contain the separator comes
\* back unchanged when the stored string, the elements joined with the
\* separator, is split on the separator; the empty list comes back empty.
C39_AncestryRoundTrip ==
    (/\ op.name = "ancestry"
     /\ \A k \in 1..Len(op.list) :
            ~contains(op.list[k], ANCESTRY_SEPARATOR))
        => op.ancestry = op.list

====
